---- MODULE Spec2Model ----
(***************************************************************************)
(* Model of the questionnaire engine (src/questionnaire/__init__.py):      *)
(* question registration, variant resolution by condition, the ask loop,   *)
(* the single and multiple pickers and back-navigation.                    *)
(***************************************************************************)
EXTENDS Integers, Sequences, FiniteSets, TLC

\* Bound on the number of back signals the user issues in one behaviour.
MaxBacks == 2

Max(a, b) == IF a >= b THEN a ELSE b

(***************************************************************************)
(* Python values that can be stored in `choices`: a string, a list of      *)
(* strings, or None (the selection returned with the back signal).         *)
(***************************************************************************)
None == [t |-> "none", s |-> "", l |-> <<>>]
Str(s) == [t |-> "str", s |-> s, l |-> <<>>]
List(l) == [t |-> "list", s |-> "", l |-> l]

\* Default sentinels of back_pick_multiple.
ALL == "all"
DONE == "done..."

(***************************************************************************)
(* OrderedDict operations on `choices` (a sequence of key/val records in   *)
(* insertion order).                                                       *)
(***************************************************************************)
HasKey(ch, k) == \E i \in 1..Len(ch) : ch[i].key = k
Get(ch, k) == ch[CHOOSE i \in 1..Len(ch) : ch[i].key = k].val
Keys(ch) == {ch[i].key : i \in 1..Len(ch)}

\* mutant of SetItem: a new key is inserted as the first entry
SetItem_front(ch, k, v) ==
  IF HasKey(ch, k)
    THEN [i \in 1..Len(ch) |-> IF ch[i].key = k THEN [key |-> k, val |-> v] ELSE ch[i]]
    ELSE <<[key |-> k, val |-> v]>> \o ch

\* self.choices[key] = v : update in place, or append a new last entry
SetItem(ch, k, v) ==
  IF HasKey(ch, k)
    THEN [i \in 1..Len(ch) |-> IF ch[i].key = k THEN [key |-> k, val |-> v] ELSE ch[i]]
    ELSE Append(ch, [key |-> k, val |-> v])

\* dict(self.choices): the plain mapping returned by run()
dict(ch) == [k \in Keys(ch) |-> Get(ch, k)]

\* mutant of go_back: one entry too many is dropped
go_back_one_more(ch, n) ==
  LET N == Max(Len(ch) - n - 2, 0)
  IN  SubSeq(ch, 1, N)

\* mutant of go_back: the entry written for the key in progress is not counted
go_back_keeps_last(ch, n) ==
  LET N == Max(Len(ch) - n, 0)
  IN  SubSeq(ch, 1, N)

\* go_back(n): keep the first max(len(choices)-n-1, 0) entries
go_back(ch, n) ==
  LET N == Max(Len(ch) - n - 1, 0)
  IN  SubSeq(ch, 1, N)

(***************************************************************************)
(* Condition operators.  Results are "T", "F" or "E" (the operator raises  *)
(* TypeError).  Strings are ordered as Python orders them; Words lists the *)
(* strings of the modelled questionnaires in that order.                   *)
(***************************************************************************)
Words == << "advanced", "all", "basic", "blue", "do some programming",
            "done...", "eat barbacoa", "eat granola", "eat tacos de pastor",
            "friday", "get dressed", "go to the cantina", "go to work",
            "high", "later", "low", "monday", "morning", "night", "red",
            "saturday", "walk the dog", "watch footy match", "yes" >>
Rank(w) == CHOOSE i \in 1..Len(Words) : Words[i] = w
Bool(b) == IF b THEN "T" ELSE "F"
Not(r) == IF r = "E" THEN "E" ELSE Bool(r = "F")

RECURSIVE ListLe(_, _)
ListLe(a, b) ==
  IF a = <<>> THEN TRUE
  ELSE IF b = <<>> THEN FALSE
  ELSE IF Head(a) = Head(b) THEN ListLe(Tail(a), Tail(b))
  ELSE Rank(Head(a)) <= Rank(Head(b))

\* operator.le(x, y)
Le(x, y) ==
  IF x.t = "str" /\ y.t = "str" THEN Bool(Rank(x.s) <= Rank(y.s))
  ELSE IF x.t = "list" /\ y.t = "list" THEN Bool(ListLe(x.l, y.l))
  ELSE "E"

\* x in y: membership in a list, substring of a string (no word of Words
\* is a proper substring of another)
In(x, y) ==
  IF y.t = "list" THEN Bool(x.t = "str" /\ \E i \in 1..Len(y.l) : y.l[i] = x.s)
  ELSE IF y.t = "str" /\ x.t = "str" THEN Bool(x.s = y.s)
  ELSE "E"

\* mutant of get_operator: the operands are passed in the other order
get_operator_swapped(op, x, y) ==
  CASE op = "==" -> Bool(y = x)
    [] op = "!=" -> Bool(y # x)
    [] op = "<=" -> Le(y, x)
    [] op = ">=" -> Le(x, y)
    [] op = "in" -> In(y, x)
    [] op = "not in" -> Not(In(y, x))

\* Condition._OPERATORS / Condition.get_operator, applied to (x, y)
get_operator(op, x, y) ==
  CASE op = "==" -> Bool(x = y)
    [] op = "!=" -> Bool(x # y)
    [] op = "<=" -> Le(x, y)
    [] op = ">=" -> Le(y, x)
    [] op = "in" -> In(x, y)
    [] op = "not in" -> Not(In(x, y))

(***************************************************************************)
(* Condition and Question containers.                                      *)
(***************************************************************************)
\* condition dictionaries passed to Question(...) and Condition(...); nonlist
\* names the properties that are given as something other than a list
NoSpec ==
  [hasKV |-> FALSE, keys |-> <<>>, vals |-> <<>>, hasOps |-> FALSE, operators |-> <<>>,
   nonlist |-> {}]
KV(keys, vals) ==
  [hasKV |-> TRUE, keys |-> keys, vals |-> vals, hasOps |-> FALSE, operators |-> <<>>,
   nonlist |-> {}]
KVO(keys, vals, ops) ==
  [hasKV |-> TRUE, keys |-> keys, vals |-> vals, hasOps |-> TRUE, operators |-> ops,
   nonlist |-> {}]

NoCondition == [none |-> TRUE, keys |-> <<>>, vals |-> <<>>, operators |-> <<>>]

\* Condition.__init__: operators default to '==' per key
Condition(condition) ==
  [none |-> FALSE,
   keys |-> condition.keys,
   vals |-> condition.vals,
   operators |-> IF condition.hasOps THEN condition.operators
                 ELSE [i \in 1..Len(condition.keys) |-> "=="]]

\* Condition.check_operator, for operators given as strings
check_operator(op) == op \in {"==", "!=", "<=", ">=", "in", "not in"}

\* mutant of CondAsserts: the length of the operators is not compared
CondAsserts_keys_vals_only(condition) ==
  LET c == Condition(condition)
  IN  /\ condition.nonlist = {}
      /\ Len(c.vals) = Len(c.keys)
      /\ \A i \in 1..Len(c.operators) : check_operator(c.operators[i])

\* the asserts of Condition.__init__: TRUE when none of them fails
CondAsserts(condition) ==
  LET c == Condition(condition)
  IN  /\ condition.nonlist = {}
      /\ Len(c.vals) = Len(c.keys) /\ Len(c.operators) = Len(c.keys)
      /\ \A i \in 1..Len(c.operators) : check_operator(c.operators[i])

\* Question.__init__
Question(key, options, multiple, condition) ==
  [key |-> key, options |-> options, multiple |-> multiple,
   condition |-> IF condition.hasKV THEN Condition(condition) ELSE NoCondition]

(***************************************************************************)
(* Client programs: the sequence of add_question calls made before run().  *)
(***************************************************************************)
\* examples/activities_client.py
ActivitiesClient ==
  << Question("day", <<"monday", "friday", "saturday">>, FALSE, NoSpec),
     Question("time", <<"morning", "night">>, FALSE, NoSpec),
     Question("activities", <<"eat tacos de pastor", "go to the cantina", "do some programming">>,
              TRUE, KV(<<"time">>, <<Str("night")>>)),
     Question("activities", <<"eat barbacoa", "watch footy match", "walk the dog">>,
              TRUE, KV(<<"day", "time">>, <<Str("saturday"), Str("morning")>>)),
     Question("activities", <<"eat granola", "get dressed", "go to work">>,
              TRUE, KV(<<"time">>, <<Str("morning")>>)) >>

\* a questionnaire with keys that are skipped, a single-select key after a
\* multi-select key, and an explicit operator
LevelsClient ==
  << Question("mode", <<"basic", "advanced">>, FALSE, NoSpec),
     Question("level", <<"low", "high">>, FALSE, KV(<<"mode">>, <<Str("advanced")>>)),
     Question("tags", <<"red", "blue">>, TRUE, NoSpec),
     Question("confirm", <<"yes", "later">>, FALSE,
              KVO(<<"mode">>, <<Str("basic")>>, <<"!=">>)) >>

\* a questionnaire whose last condition references a key that is skipped
\* when day = monday
SkippedRefClient ==
  << Question("day", <<"monday", "saturday">>, FALSE, NoSpec),
     Question("time", <<"morning", "night">>, FALSE, KV(<<"day">>, <<Str("saturday")>>)),
     Question("activities", <<"walk the dog">>, FALSE, KV(<<"time">>, <<Str("night")>>)) >>

\* a questionnaire using a condition without triples and the operators
\* '<=', '>=', 'in' and 'not in'
OperatorsClient ==
  << Question("level", <<"low", "high">>, FALSE, KV(<<>>, <<>>)),
     Question("tags", <<"red", "blue">>, TRUE, NoSpec),
     Question("extra", <<"yes", "later">>, FALSE,
              KVO(<<"level">>, <<Str("later")>>, <<"<=">>)),
     Question("extra", <<"later">>, FALSE,
              KVO(<<"level">>, <<Str("later")>>, <<">=">>)),
     Question("confirm", <<"yes">>, FALSE,
              KVO(<<"tags">>, <<Str("red")>>, <<"in">>)),
     Question("confirm", <<"later", "yes">>, FALSE,
              KVO(<<"tags">>, <<Str("blue")>>, <<"not in">>)) >>

\* a client that registers no question and only constructs conditions
ConditionsClient == << >>

Clients == << ActivitiesClient, LevelsClient, SkippedRefClient, OperatorsClient,
             ConditionsClient >>

\* Bound on the length of the lists of a constructed condition.
CondMaxLen == 2

SeqsUpTo(S, n) == UNION {[1..k -> S] : k \in 0..n}

\* the condition specifications the conditions client constructs
CondSpecs ==
  {c \in [hasKV : {TRUE},
          keys : SeqsUpTo({"day"}, CondMaxLen),
          vals : SeqsUpTo({Str("night")}, CondMaxLen),
          hasOps : BOOLEAN,
          operators : SeqsUpTo({"==", "not in", "bogus"}, CondMaxLen),
          nonlist : SUBSET {"keys", "vals", "operators"}] :
     ~c.hasOps => (c.operators = <<>> /\ "operators" \notin c.nonlist)}


(***************************************************************************)
(* State.                                                                  *)
(***************************************************************************)
VARIABLES
  client,     \* which client program is running (index into Clients)
  line,       \* number of add_question calls the client has made
  questions,  \* Questionnaire.questions: sequence of [key, variants], registration order
  choices,    \* Questionnaire.choices: sequence of [key, val], recording order
  pc,         \* "setup", "ask" (in the ask_questions loop), "pick" / "multi"
              \* (picker waiting for input), "returned", "error" (KeyError raised)
  idx,        \* position of the ask_questions loop in questions.keys()
  prompt,     \* arguments of the prompt() call in progress: [key, options, multiple]
  options,    \* back_pick_multiple: selections accumulated so far
  pool,       \* back_pick_multiple: working pool _options
  last,       \* last value returned by the picker: [option, i]
  result,     \* value returned by run()
  rerun,      \* TRUE while the client calls ask_questions() again after run()
  backs,      \* number of back signals issued so far
  qualified,  \* keys for which which_question returned a variant in this pass
  picked,     \* the selection the user last completed for each key
  expect,     \* after a back signal: the key the user is to be asked next
  built       \* outcome of the client's last Condition(...) construction

vars == << client, line, questions, choices, pc, idx, prompt, options, pool,
           last, result, rerun, backs, qualified, picked, expect, built >>

NKeys == Len(questions)
KeyAt(i) == questions[i].key
Variants(k) == questions[CHOOSE i \in 1..Len(questions) : questions[i].key = k].variants
NoExpect == [kind |-> "none", key |-> ""]
NoBuilt == [arg |-> NoSpec, state |-> "none", cond |-> NoCondition]

\* the user's completed selection for key k is v
Record(f, k, v) == [x \in DOMAIN f \cup {k} |-> IF x = k THEN v ELSE f[x]]

\* add_question: questions.setdefault(key, []).append(question)
add_question(qs, question) ==
  IF \E i \in 1..Len(qs) : qs[i].key = question.key
    THEN [i \in 1..Len(qs) |->
            IF qs[i].key = question.key
              THEN [key |-> qs[i].key, variants |-> Append(qs[i].variants, question)]
              ELSE qs[i]]
    ELSE Append(qs, [key |-> question.key, variants |-> <<question>>])

\* mutant of check_from: a key absent from choices makes the triple false
RECURSIVE check_from_absent_false(_, _, _)
check_from_absent_false(condition, ch, i) ==
  IF i > Len(condition.keys) THEN "T"
  ELSE IF ~HasKey(ch, condition.keys[i]) THEN "F"
  ELSE LET r == get_operator(condition.operators[i], condition.vals[i],
                             Get(ch, condition.keys[i]))
       IN  IF r = "T" THEN check_from_absent_false(condition, ch, i + 1) ELSE r

\* check_condition: "T", "F", or "E" when self.choices[key] raises KeyError
\* (or the operator raises); the loop stops at the first failing triple
RECURSIVE check_from(_, _, _)
check_from(condition, ch, i) ==
  IF i > Len(condition.keys) THEN "T"
  ELSE IF ~HasKey(ch, condition.keys[i]) THEN "E"
  ELSE LET r == get_operator(condition.operators[i], condition.vals[i],
                             Get(ch, condition.keys[i]))
       IN  IF r = "T" THEN check_from(condition, ch, i + 1) ELSE r

\* mutant of check_condition: only the last triple decides
check_condition_last_triple(condition, ch) ==
  IF condition.none \/ condition.keys = <<>> THEN "T"
  ELSE check_from(condition, ch, Len(condition.keys))

check_condition(condition, ch) ==
  IF condition.none THEN "T" ELSE check_from(condition, ch, 1)

\* which_question: index of the first variant whose condition is satisfied,
\* 0 for None, -1 when evaluating a condition raises
RECURSIVE which_from(_, _, _)
which_from(variants, ch, j) ==
  IF j > Len(variants) THEN 0
  ELSE LET r == check_condition(variants[j].condition, ch)
       IN  IF r = "E" THEN -1
           ELSE IF r = "T" THEN j
           ELSE which_from(variants, ch, j + 1)

\* mutant of which_question: the last satisfied variant wins
which_question_last_match(key, ch) ==
  LET vs == Variants(key)
      sat == {j \in 1..Len(vs) : check_condition(vs[j].condition, ch) = "T"}
  IN  IF \E j \in 1..Len(vs) : check_condition(vs[j].condition, ch) = "E" THEN -1
      ELSE IF sat = {} THEN 0
      ELSE CHOOSE j \in sat : \A i \in sat : i <= j

which_question(key, ch) == which_from(Variants(key), ch, 1)

\* mutant of Remove: the picked option stays in the pool
Remove_nothing(seq, x) == seq

\* list.remove(x): drop the first occurrence
RECURSIVE Remove(_, _)
Remove(seq, x) ==
  IF seq = <<>> THEN <<>>
  ELSE IF Head(seq) = x THEN Tail(seq)
  ELSE <<Head(seq)>> \o Remove(Tail(seq), x)

(***************************************************************************)
(* Initial state: a fresh Questionnaire() in one of the client programs.   *)
(***************************************************************************)
Init ==
  /\ client \in 1..Len(Clients)
  /\ line = 0
  /\ questions = <<>>
  /\ choices = <<>>
  /\ pc = "setup"
  /\ idx = 1
  /\ prompt = [key |-> "", options |-> <<>>, multiple |-> FALSE]
  /\ options = <<>>
  /\ pool = <<>>
  /\ last = [option |-> None, i |-> 0]
  /\ result = <<>>
  /\ rerun = FALSE
  /\ backs = 0
  /\ qualified = {}
  /\ picked = <<>>
  /\ expect = NoExpect
  /\ built = NoBuilt

(***************************************************************************)
(* Actions.                                                                *)
(***************************************************************************)
\* the client registers its next question
AddQuestion ==
  /\ pc = "setup"
  /\ line < Len(Clients[client])
  /\ questions' = add_question(questions, Clients[client][line + 1])
  /\ line' = line + 1
  /\ UNCHANGED << built, client, choices, pc, idx, prompt, options, pool, last,
                  result, rerun, backs, qualified, picked, expect >>

\* the client constructs Condition(condition); a failed assert raises
\* AssertionError and no Condition object exists
NewCondition ==
  /\ pc = "setup"
  /\ Len(Clients[client]) = 0
  /\ built.state = "none"
  /\ \E condition \in CondSpecs :
       built' = IF CondAsserts(condition)
                  THEN [arg |-> condition, state |-> "ok", cond |-> Condition(condition)]
                  ELSE [arg |-> condition, state |-> "AssertionError", cond |-> NoCondition]
  /\ UNCHANGED << client, line, questions, choices, pc, idx, prompt, options, pool,
                  last, result, rerun, backs, qualified, picked, expect >>

\* run(): reset choices and start the first pass
Run ==
  /\ pc = "setup"
  /\ line = Len(Clients[client])
  /\ choices' = <<>>
  /\ pc' = "ask"
  /\ idx' = 1
  /\ qualified' = {}
  /\ UNCHANGED << built, client, line, questions, prompt, options, pool, last,
                  result, rerun, backs, picked, expect >>

\* ask_questions loop body: which_question raises KeyError
AskKeyError ==
  /\ pc = "ask"
  /\ idx <= NKeys
  /\ which_question(KeyAt(idx), choices) = -1
  /\ pc' = "error"
  /\ UNCHANGED << built, client, line, questions, choices, idx, prompt, options, pool,
                  last, result, rerun, backs, qualified, picked, expect >>

\* ask_questions loop body: no variant qualifies, or the key is answered
AskSkip ==
  /\ pc = "ask"
  /\ idx <= NKeys
  /\ LET key == KeyAt(idx)
         w == which_question(key, choices)
     IN  /\ w # -1
         /\ ~(w > 0 /\ ~HasKey(choices, key))
         /\ qualified' = IF w > 0 THEN qualified \cup {key} ELSE qualified
  /\ idx' = idx + 1
  /\ UNCHANGED << built, client, line, questions, choices, pc, prompt, options, pool,
                  last, result, rerun, backs, picked, expect >>

\* mutant of AskPrompt: the `key not in self.choices` test is missing
AskPrompt_no_answered_test ==
  /\ pc = "ask"
  /\ idx <= NKeys
  /\ LET key == KeyAt(idx)
         w == which_question(key, choices)
     IN  /\ w > 0
         /\ LET question == Variants(key)[w]
            IN  /\ prompt' = [key |-> key, options |-> question.options,
                              multiple |-> question.multiple]
                /\ IF question.multiple
                     THEN /\ pc' = "multi"
                          /\ options' = <<>>
                          /\ pool' = <<ALL>> \o question.options \o <<DONE>>
                     ELSE /\ pc' = "pick"
                          /\ UNCHANGED << options, pool >>
         /\ qualified' = qualified \cup {key}
  /\ UNCHANGED << built, client, line, questions, choices, idx, last, result, rerun,
                  backs, picked, expect >>

\* ask_questions loop body: prompt() is called and the picker is started
AskPrompt ==
  /\ pc = "ask"
  /\ idx <= NKeys
  /\ LET key == KeyAt(idx)
         w == which_question(key, choices)
     IN  /\ w > 0
         /\ ~HasKey(choices, key)
         /\ LET question == Variants(key)[w]
            IN  /\ prompt' = [key |-> key, options |-> question.options,
                              multiple |-> question.multiple]
                /\ IF question.multiple
                     THEN /\ pc' = "multi"
                          /\ options' = <<>>
                          /\ pool' = <<ALL>> \o question.options \o <<DONE>>
                     ELSE /\ pc' = "pick"
                          /\ UNCHANGED << options, pool >>
         /\ qualified' = qualified \cup {key}
  /\ UNCHANGED << built, client, line, questions, choices, idx, last, result, rerun,
                  backs, picked, expect >>

\* ask_questions returns True at the end of the loop; run() returns
AskDone ==
  /\ pc = "ask"
  /\ idx > NKeys
  /\ pc' = "returned"
  /\ result' = IF rerun THEN result ELSE dict(choices)
  /\ UNCHANGED << built, client, line, questions, choices, idx, prompt, options, pool,
                  last, rerun, backs, qualified, picked, expect >>

\* mutant of PassAborted: ask_questions ignores the False and goes on
PassAborted_continues ==
  /\ pc' = "ask"
  /\ idx' = idx + 1
  /\ qualified' = qualified
  /\ backs' = backs + 1

\* mutant of PassAborted: the loop asks again from the current key
PassAborted_same_key ==
  /\ pc' = "ask"
  /\ idx' = idx
  /\ qualified' = qualified
  /\ backs' = backs + 1

\* prompt() returned False: ask_questions returns False and run() starts
\* the next pass (a direct caller of ask_questions gets False back)
PassAborted ==
  /\ pc' = IF rerun THEN "returned" ELSE "ask"
  /\ idx' = 1
  /\ qualified' = {}
  /\ backs' = backs + 1

\* what the back signal is expected to lead to, from the choices before it
BackExpect(undo) ==
  IF ~undo THEN [kind |-> "same", key |-> prompt.key]
  ELSE IF choices = <<>> THEN [kind |-> "first", key |-> prompt.key]
  ELSE [kind |-> "prev", key |-> choices[Len(choices)].key]

\* back_pick returns a selection; prompt() records it and returns True
PickOne ==
  /\ pc = "pick"
  /\ \E i \in 1..Len(prompt.options) :
       /\ last' = [option |-> Str(prompt.options[i]), i |-> i - 1]
       /\ choices' = SetItem(choices, prompt.key, last'.option)
       /\ picked' = Record(picked, prompt.key, last'.option)
  /\ pc' = "ask"
  /\ idx' = idx + 1
  /\ expect' = NoExpect
  /\ UNCHANGED << built, client, line, questions, prompt, options, pool, result,
                  rerun, backs, qualified >>

\* back_pick returns (None, -1); prompt() records None, goes back one step
BackOne ==
  /\ pc = "pick"
  /\ backs < MaxBacks
  /\ last' = [option |-> None, i |-> -1]
  /\ choices' = go_back(SetItem(choices, prompt.key, last'.option), 1)
  /\ expect' = BackExpect(TRUE)
  /\ PassAborted
  /\ UNCHANGED << built, client, line, questions, prompt, options, pool, result,
                  rerun, picked >>

\* back_pick_multiple: a real option is picked, appended and removed from the pool
MultiPickReal ==
  /\ pc = "multi"
  /\ \E i \in 1..Len(pool) :
       /\ pool[i] # ALL
       /\ pool[i] # DONE
       /\ last' = [option |-> Str(pool[i]), i |-> i - 1]
       /\ options' = Append(options, pool[i])
       /\ pool' = Remove(pool, pool[i])
  /\ expect' = NoExpect
  /\ UNCHANGED << built, client, line, questions, choices, pc, idx, prompt, result,
                  rerun, backs, qualified, picked >>

\* mutant of MultiPickAll: ALL is added to the accumulated selections
MultiPickAll_appends ==
  /\ pc = "multi"
  /\ \E i \in 1..Len(pool) :
       /\ pool[i] = ALL
       /\ last' = [option |-> Str(pool[i]), i |-> i - 1]
  /\ choices' = SetItem(choices, prompt.key, List(Append(options, ALL)))
  /\ picked' = Record(picked, prompt.key, List(<<ALL>>))
  /\ pc' = "ask"
  /\ idx' = idx + 1
  /\ expect' = NoExpect
  /\ UNCHANGED << built, client, line, questions, prompt, options, pool, result,
                  rerun, backs, qualified >>

\* back_pick_multiple: ALL is picked; prompt() records [ALL]
MultiPickAll ==
  /\ pc = "multi"
  /\ \E i \in 1..Len(pool) :
       /\ pool[i] = ALL
       /\ last' = [option |-> Str(pool[i]), i |-> i - 1]
  /\ choices' = SetItem(choices, prompt.key, List(<<ALL>>))
  /\ picked' = Record(picked, prompt.key, List(<<ALL>>))
  /\ pc' = "ask"
  /\ idx' = idx + 1
  /\ expect' = NoExpect
  /\ UNCHANGED << built, client, line, questions, prompt, options, pool, result,
                  rerun, backs, qualified >>

\* mutant of MultiPickDone: the option is appended before DONE is tested
MultiPickDone_appends ==
  /\ pc = "multi"
  /\ \E i \in 1..Len(pool) :
       /\ pool[i] # ALL
       /\ pool[i] = DONE
       /\ last' = [option |-> Str(pool[i]), i |-> i - 1]
  /\ choices' = SetItem(choices, prompt.key, List(Append(options, DONE)))
  /\ picked' = Record(picked, prompt.key, List(options))
  /\ pc' = "ask"
  /\ idx' = idx + 1
  /\ expect' = NoExpect
  /\ UNCHANGED << built, client, line, questions, prompt, options, pool, result,
                  rerun, backs, qualified >>

\* back_pick_multiple: DONE is picked; prompt() records the accumulated list
MultiPickDone ==
  /\ pc = "multi"
  /\ \E i \in 1..Len(pool) :
       /\ pool[i] # ALL
       /\ pool[i] = DONE
       /\ last' = [option |-> Str(pool[i]), i |-> i - 1]
  /\ choices' = SetItem(choices, prompt.key, List(options))
  /\ picked' = Record(picked, prompt.key, List(options))
  /\ pc' = "ask"
  /\ idx' = idx + 1
  /\ expect' = NoExpect
  /\ UNCHANGED << built, client, line, questions, prompt, options, pool, result,
                  rerun, backs, qualified >>

\* mutant of MultiBack: the go_back(0) and go_back(1) branches are swapped
MultiBack_swapped ==
  /\ pc = "multi"
  /\ backs < MaxBacks
  /\ last' = [option |-> None, i |-> -1]
  /\ choices' = go_back(SetItem(choices, prompt.key, List(options)),
                        IF options # <<>> THEN 1 ELSE 0)
  /\ expect' = BackExpect(options = <<>>)
  /\ PassAborted
  /\ UNCHANGED << built, client, line, questions, prompt, options, pool, result,
                  rerun, picked >>

\* mutant of MultiBack: go_back(1) whatever has been accumulated
MultiBack_always_one ==
  /\ pc = "multi"
  /\ backs < MaxBacks
  /\ last' = [option |-> None, i |-> -1]
  /\ choices' = go_back(SetItem(choices, prompt.key, List(options)), 1)
  /\ expect' = BackExpect(options = <<>>)
  /\ PassAborted
  /\ UNCHANGED << built, client, line, questions, prompt, options, pool, result,
                  rerun, picked >>

\* back_pick_multiple returns (options, -1); prompt() records the partial
\* list, then go_back(0) if it is non-empty, else go_back(1)
MultiBack ==
  /\ pc = "multi"
  /\ backs < MaxBacks
  /\ last' = [option |-> None, i |-> -1]
  /\ choices' = go_back(SetItem(choices, prompt.key, List(options)),
                        IF options # <<>> THEN 0 ELSE 1)
  /\ expect' = BackExpect(options = <<>>)
  /\ PassAborted
  /\ UNCHANGED << built, client, line, questions, prompt, options, pool, result,
                  rerun, picked >>

\* after run() has returned, the client calls ask_questions() again
AskAgain ==
  /\ pc = "returned"
  /\ rerun' = TRUE
  /\ pc' = "ask"
  /\ idx' = 1
  /\ qualified' = {}
  /\ UNCHANGED << built, client, line, questions, choices, prompt, options, pool,
                  last, result, backs, picked, expect >>

Next ==
  \/ AddQuestion
  \/ NewCondition
  \/ Run
  \/ AskKeyError
  \/ AskSkip
  \/ AskPrompt
  \/ AskDone
  \/ PickOne
  \/ BackOne
  \/ MultiPickReal
  \/ MultiPickAll
  \/ MultiPickDone
  \/ MultiBack
  \/ AskAgain

Spec == Init /\ [][Next]_vars

\* the user answers every prompt eventually; the program's own steps are taken
Answer == PickOne \/ MultiPickReal \/ MultiPickAll \/ MultiPickDone
Step == AddQuestion \/ Run \/ AskKeyError \/ AskSkip \/ AskPrompt \/ AskDone

FairSpec == Spec /\ WF_vars(Step) /\ WF_vars(Answer)


(***************************************************************************)
(* Properties.                                                             *)
(***************************************************************************)
Prompting == pc \in {"pick", "multi"}
BackSignal == backs' # backs
LastKey(ch) == ch[Len(ch)].key
Front(ch) == SubSeq(ch, 1, Len(ch) - 1)
Holds(k, j) == check_condition(Variants(k)[j].condition, choices)
Qualifies(k) == \E j \in 1..Len(Variants(k)) : Holds(k, j) = "T"

\* every condition references only keys registered earlier that have an
\* unconditional variant (and so are answered on every path)
WellFormed ==
  \A p \in 1..NKeys : \A j \in 1..Len(questions[p].variants) :
    LET c == questions[p].variants[j].condition
    IN  \A t \in 1..Len(c.keys) :
          \E q \in 1..(p - 1) :
            /\ KeyAt(q) = c.keys[t]
            /\ \E v \in 1..Len(questions[q].variants) :
                 questions[q].variants[v].condition.keys = <<>>

\* C1: when run() returns after a run without back-navigation, the keys of
\* the returned mapping are exactly the keys for which a variant qualified
\* when the key was reached, and each maps to the selection the user made
\* (a string for a single-select key, a list for a multi-select key).
C1_NoBackResult ==
  (pc = "returned" /\ backs = 0) =>
    /\ DOMAIN result = qualified
    /\ \A k \in qualified :
         /\ result[k] = picked[k]
         /\ result[k].t = IF Variants(k)[which_question(k, choices)].multiple
                            THEN "list" ELSE "str"

C1_Witness ==
  /\ pc = "returned"
  /\ backs = 0
  /\ client = 1
  /\ DOMAIN result = {"day", "time", "activities"}
  /\ result["day"] = Str("saturday")
  /\ result["time"] = Str("morning")
  /\ result["activities"] = List(<<"watch footy match">>)

\* C2: for every registered key and every reachable choices, which_question
\* returns the first variant in registration order whose condition is true,
\* returns none exactly when every variant's condition is false, and a key
\* is only prompted with the options of the variant which_question returns.
C2_FirstQualifying ==
  /\ \A p \in 1..NKeys :
       LET k == KeyAt(p)
           w == which_question(k, choices)
       IN  /\ w > 0 => /\ w <= Len(Variants(k))
                       /\ Holds(k, w) = "T"
                       /\ \A i \in 1..(w - 1) : Holds(k, i) = "F"
           /\ w = 0 <=> \A j \in 1..Len(Variants(k)) : Holds(k, j) = "F"
  /\ Prompting =>
       LET w == which_question(prompt.key, choices)
       IN  /\ w > 0
           /\ prompt.key \in qualified
           /\ prompt.options = Variants(prompt.key)[w].options
           /\ prompt.multiple = Variants(prompt.key)[w].multiple
  /\ \A p \in 1..NKeys :
       (pc = "ask" /\ p < idx /\ KeyAt(p) \notin qualified) => ~HasKey(choices, KeyAt(p))

C2_Witness ==
  /\ client = 2
  /\ pc = "multi"
  /\ prompt.key = "tags"
  /\ which_question("level", choices) = 0
  /\ ~HasKey(choices, "level")

\* C3: in the day/time/activities questionnaire the activities prompt shows
\* the night options when time = night, the saturday-morning options when
\* day = saturday and time = morning, and the other-mornings options when
\* time = morning and day is not saturday, also after back-navigation.
C3_ActivitiesVariant ==
  (client = 1 /\ Prompting /\ prompt.key = "activities") =>
    LET day == Get(choices, "day")
        time == Get(choices, "time")
        shown == IF time = Str("night")
                   THEN <<"eat tacos de pastor", "go to the cantina", "do some programming">>
                 ELSE IF day = Str("saturday")
                   THEN <<"eat barbacoa", "watch footy match", "walk the dog">>
                 ELSE <<"eat granola", "get dressed", "go to work">>
    IN  /\ time \in {Str("morning"), Str("night")}
        /\ day \in {Str("monday"), Str("friday"), Str("saturday")}
        /\ pc = "multi"
        /\ prompt.options = shown
        /\ options = <<>> => pool = <<ALL>> \o shown \o <<DONE>>

C3_Witness ==
  /\ client = 1
  /\ pc = "multi"
  /\ prompt.key = "activities"
  /\ backs > 0
  /\ Get(choices, "day") = Str("saturday")
  /\ Get(choices, "time") = Str("morning")
  /\ "day" \in DOMAIN picked /\ picked["day"] = Str("saturday")
  /\ prompt.options = <<"eat barbacoa", "watch footy match", "walk the dog">>

\* C4: when the prompt that follows the recording of key K (single-select,
\* or multi-select with no picks) returns the back signal, K is removed
\* from choices, every other recorded answer is kept, and the next prompt
\* run() issues is for K.
C4_BackRemovesLast ==
  /\ [][(BackSignal /\ choices # <<>> /\ (pc = "pick" \/ (pc = "multi" /\ options = <<>>)))
          => /\ ~HasKey(choices', LastKey(choices))
             /\ choices' = Front(choices)]_vars
  /\ [](expect.kind = "prev" =>
          /\ pc \in {"ask", "pick", "multi"}
          /\ ~HasKey(choices, expect.key)
          /\ Prompting => prompt.key = expect.key)

C4_Witness ==
  /\ expect.kind = "prev"
  /\ Prompting
  /\ prompt.key = expect.key
  /\ last.i = -1
  /\ choices # <<>>

\* C5 (as claimed): a multi-select back signal with no picks leaves the
\* number of entries of choices as it was before the prompt started, and
\* the in-progress key is not in choices.
C5_SizeUnchanged ==
  [][(BackSignal /\ pc = "multi" /\ options = <<>>)
       => /\ Len(choices') = Len(choices)
          /\ ~HasKey(choices', prompt.key)]_vars

\* C5 (amended): a multi-select back signal with no picks removes the most
\* recently recorded answer: choices has one entry fewer than before the
\* prompt started (none if it was empty), the remaining entries are
\* unchanged, and the in-progress key is not in choices.
C5_OneFewer ==
  [][(BackSignal /\ pc = "multi" /\ options = <<>>)
       => /\ Len(choices') = Max(Len(choices) - 1, 0)
          /\ choices' = SubSeq(choices, 1, Len(choices'))
          /\ ~HasKey(choices', prompt.key)]_vars

C5_Witness ==
  /\ last.i = -1
  /\ prompt.multiple
  /\ options = <<>>
  /\ expect.kind = "prev"
  /\ pc = "ask"
  /\ idx = 1
  /\ choices # <<>>

\* C6: a multi-select back signal for key K after at least one real pick
\* removes no completed answer (choices is as before the prompt, K absent),
\* prompt() returns false so the pass restarts, and the next prompt is for
\* K again with no accumulated picks and the variant's full option set.
C6_PartialBackKeepsAnswers ==
  /\ [][(BackSignal /\ pc = "multi" /\ options # <<>>)
          => /\ choices' = choices
             /\ ~HasKey(choices', prompt.key)
             /\ pc' = "ask" /\ idx' = 1]_vars
  /\ [](expect.kind = "same" =>
          /\ pc \in {"ask", "multi"}
          /\ pc = "multi" =>
               /\ prompt.key = expect.key
               /\ options = <<>>
               /\ pool = <<ALL>> \o Variants(expect.key)[which_question(expect.key, choices)].options
                               \o <<DONE>>)

C6_Witness ==
  /\ expect.kind = "same"
  /\ pc = "multi"
  /\ prompt.key = expect.key
  /\ choices # <<>>

\* C7: run() returns only from the end of a pass over all registered keys,
\* never on a step that carries a back signal (such a step restarts the
\* pass), it fails only when a condition references a key that may be
\* unanswered, and with finitely many back signals and every prompt
\* eventually answered it eventually returns.
C7_ReturnsAfterCleanPass ==
  /\ [][(pc' = "returned" /\ pc # "returned")
          => /\ pc = "ask" /\ idx = NKeys + 1
             /\ ~BackSignal
             /\ \A p \in 1..NKeys : KeyAt(p) \in qualified <=> HasKey(choices, KeyAt(p))]_vars
  /\ [][BackSignal => (pc' = "ask" /\ idx' = 1)]_vars
  /\ [](pc = "error" => ~WellFormed)
  /\ <>(pc = "returned" \/ pc = "error")

C7_Witness ==
  /\ pc = "returned"
  /\ backs = MaxBacks
  /\ ~rerun
  /\ Len(choices) = NKeys

\* C8: a back signal ends the pass and the next pass starts from the first
\* registered key; a key present in choices is never prompted; the key being
\* prompted is always the first key in registration order that has a
\* qualifying variant and is absent from choices.
C8_PromptsFirstOpenKey ==
  /\ [][BackSignal => (~Prompting' /\ idx' = 1 /\ qualified' = {})]_vars
  /\ [](Prompting =>
          /\ prompt.key = KeyAt(idx)
          /\ ~HasKey(choices, prompt.key)
          /\ Qualifies(prompt.key)
          /\ \A p \in 1..(idx - 1) :
               HasKey(choices, KeyAt(p)) \/ ~Qualifies(KeyAt(p)))

C8_Witness ==
  /\ Prompting
  /\ backs > 0
  /\ idx > 1
  /\ \E p \in 1..(idx - 1) : HasKey(choices, KeyAt(p))
  /\ \E p \in 1..(idx - 1) : ~Qualifies(KeyAt(p))

\* C9: once a pass has completed successfully, running ask_questions again
\* (any number of times) issues no prompt, raises nothing, returns true and
\* leaves the keys, values and order of choices unchanged.
C9_RepeatPassIdempotent ==
  /\ [][rerun => (choices' = choices /\ pc' \in {"ask", "returned"} /\ ~BackSignal)]_vars
  /\ [](rerun /\ pc = "returned" => (idx = NKeys + 1 /\ result = dict(choices)))

C9_Witness ==
  /\ rerun
  /\ pc = "returned"
  /\ idx = NKeys + 1
  /\ backs > 0
  /\ Len(choices) >= 2
  /\ Len(choices) < NKeys

\* C10: selecting ALL in the multi-select picker, whatever has been
\* accumulated, returns success and the recorded answer is exactly [ALL]:
\* neither the accumulated picks nor the real options are included.
C10_AllRecordsSentinelOnly ==
  [][(pc = "multi" /\ last'.option = Str(ALL) /\ last'.i >= 0)
       => /\ choices' = Append(choices, [key |-> prompt.key, val |-> List(<<ALL>>)])
          /\ pc' = "ask" /\ idx' = idx + 1]_vars

C10_Witness ==
  /\ last.option = Str(ALL)
  /\ options # <<>>
  /\ pc = "ask"
  /\ choices # <<>>
  /\ choices[Len(choices)] = [key |-> prompt.key, val |-> List(<<ALL>>)]

\* C11: while the multi-select picker waits, the accumulated selections
\* have no duplicates, are options of the question, are disjoint from the
\* real options left in the pool (which are the unpicked options in their
\* original order between ALL and DONE), each real pick is appended last and
\* leaves the pool, and once every option is picked only ALL and DONE remain.
C11_PicksDistinct ==
  /\ [](pc = "multi" =>
          LET Unpicked(o) == \A i \in 1..Len(options) : options[i] # o
          IN  /\ \A i, j \in 1..Len(options) : options[i] = options[j] => i = j
              /\ \A i \in 1..Len(options) :
                   \E j \in 1..Len(prompt.options) : prompt.options[j] = options[i]
              /\ pool = <<ALL>> \o SelectSeq(prompt.options, Unpicked) \o <<DONE>>
              /\ Len(options) <= Len(prompt.options)
              /\ Len(options) = Len(prompt.options) => pool = <<ALL, DONE>>)
  /\ [][(pc = "multi" /\ pc' = "multi" /\ options' # options)
          => /\ last'.option.t = "str"
             /\ options' = Append(options, last'.option.s)
             /\ \E i \in 1..Len(pool) : pool[i] = last'.option.s
             /\ \A i \in 1..Len(pool') : pool'[i] # last'.option.s]_vars

C11_Witness ==
  /\ pc = "multi"
  /\ Len(options) = 3
  /\ Len(options) = Len(prompt.options)
  /\ pool = <<ALL, DONE>>

\* C12: constructing a Condition succeeds when keys, vals and operators are
\* lists of equal length with recognized operators (operators default to
\* '==' per key when omitted), and fails, leaving no Condition, whenever the
\* lengths differ.
C12_ConstructionValidates ==
  built.state # "none" =>
    LET a == built.arg
        nops == IF a.hasOps THEN Len(a.operators) ELSE Len(a.keys)
        equal == Len(a.keys) = Len(a.vals) /\ nops = Len(a.keys)
        recognized == \A i \in 1..Len(a.operators) :
                        a.operators[i] \in {"==", "!=", "<=", ">=", "in", "not in"}
    IN  /\ (a.nonlist = {} /\ equal /\ recognized) =>
             /\ built.state = "ok"
             /\ ~built.cond.none
             /\ built.cond.keys = a.keys
             /\ built.cond.vals = a.vals
             /\ Len(built.cond.operators) = Len(a.keys)
             /\ \A i \in 1..Len(a.keys) :
                  built.cond.operators[i] = IF a.hasOps THEN a.operators[i] ELSE "=="
        /\ ~equal => (built.state = "AssertionError" /\ built.cond = NoCondition)

C12_Witness ==
  /\ built.state = "AssertionError"
  /\ built.arg.nonlist = {}
  /\ built.arg.hasOps
  /\ Len(built.arg.keys) = 2
  /\ Len(built.arg.vals) = 2
  /\ built.arg.operators = <<"not in">>

\* C13: a condition holds iff every triple's operator holds with the
\* condition's value as left operand and the recorded answer as right operand
\* ('<=' is value <= answer, 'in' is value in answer); a condition without
\* triples and an absent condition hold for every choices.
C13_ValueIsLeftOperand ==
  /\ \A p \in 1..NKeys : \A j \in 1..Len(questions[p].variants) :
       LET c == questions[p].variants[j].condition
       IN  /\ c.keys = <<>> => check_condition(c, choices) = "T"
           /\ (\A t \in 1..Len(c.keys) : HasKey(choices, c.keys[t])) =>
                (check_condition(c, choices) = "T" <=>
                   \A t \in 1..Len(c.keys) :
                     get_operator(c.operators[t], c.vals[t], Get(choices, c.keys[t])) = "T")
  /\ (client = 4 /\ Prompting /\ prompt.key = "extra") =>
       \* "later" <= "low" and "later" >= "high"
       prompt.options = IF Get(choices, "level") = Str("low")
                          THEN <<"yes", "later">> ELSE <<"later">>
  /\ (client = 4 /\ HasKey(choices, "tags") /\ (Prompting \/ pc = "returned")) =>
       LET tags == Get(choices, "tags").l
           red == \E i \in 1..Len(tags) : tags[i] = "red"
           blue == \E i \in 1..Len(tags) : tags[i] = "blue"
       IN  /\ (Prompting /\ prompt.key = "confirm") =>
                prompt.options = IF red THEN <<"yes">> ELSE <<"later", "yes">>
           /\ (blue /\ ~red) => ~(Prompting /\ prompt.key = "confirm")
           /\ pc = "returned" => (HasKey(choices, "confirm") <=> (red \/ ~blue))

C13_Witness ==
  /\ client = 4
  /\ pc = "pick"
  /\ prompt.key = "confirm"
  /\ prompt.options = <<"yes">>
  /\ Get(choices, "level") = Str("high")
  /\ Get(choices, "extra") = Str("later")
  /\ Get(choices, "tags") = List(<<"blue", "red">>)

\* C14: whenever the picker waits for input, and when run() has returned,
\* every entry of choices is the selection of a prompt the user completed:
\* none holds the back-signal placeholder or a partial multi-select list.
C14_OnlyCompletedAnswers ==
  (Prompting \/ pc = "returned") =>
    \A i \in 1..Len(choices) :
      /\ choices[i].val # None
      /\ choices[i].key \in DOMAIN picked
      /\ choices[i].val = picked[choices[i].key]
      /\ \A j \in 1..Len(choices) : choices[j].key = choices[i].key => i = j

C14_Witness ==
  /\ pc = "multi"
  /\ expect.kind = "same"
  /\ Len(choices) = 2
  /\ last.i = -1

\* the first lookup self.choices[key] that evaluating the variants of k
\* reaches is of a key absent from choices
ReachesAbsent(k) ==
  \E j \in 1..Len(Variants(k)) :
    /\ \A i \in 1..(j - 1) : Holds(k, i) = "F"
    /\ LET c == Variants(k)[j].condition
       IN  \E t \in 1..Len(c.keys) :
             /\ ~HasKey(choices, c.keys[t])
             /\ \A u \in 1..(t - 1) :
                  /\ HasKey(choices, c.keys[u])
                  /\ get_operator(c.operators[u], c.vals[u], Get(choices, c.keys[u])) = "T"

\* C15: when every condition references only earlier keys that are answered
\* on every path, which_question never looks up a key absent from choices,
\* whatever the answers and back signals; and when evaluation reaches a
\* condition on a key that was skipped, it ends in the key-lookup failure
\* instead of counting the condition as false.
C15_LookupOnlyAnswered ==
  /\ [](WellFormed =>
          /\ pc # "error"
          /\ (pc = "ask" /\ idx <= NKeys) =>
               /\ ~ReachesAbsent(KeyAt(idx))
               /\ which_question(KeyAt(idx), choices) # -1)
  /\ [](\A p \in 1..NKeys :
          ReachesAbsent(KeyAt(p)) => which_question(KeyAt(p), choices) = -1)
  /\ [][(pc = "ask" /\ idx <= NKeys /\ ReachesAbsent(KeyAt(idx))) => pc' = "error"]_vars

C15_Witness ==
  /\ client = 3
  /\ pc = "error"
  /\ KeyAt(idx) = "activities"
  /\ ~HasKey(choices, "time")
  /\ which_question("time", choices) = 0
  /\ backs > 0

\* C16: a back signal removes at most one completed answer, the most
\* recently recorded one: choices afterwards is choices before, or choices
\* before without its last entry, and the registry of questions is unchanged.
C16_BackDropsAtMostLast ==
  [][BackSignal =>
       /\ choices' = choices \/ (choices # <<>> /\ choices' = Front(choices))
       /\ questions' = questions]_vars

C16_Witness ==
  /\ last.i = -1
  /\ expect.kind = "prev"
  /\ ~prompt.multiple
  /\ Len(choices) = 2
  /\ pc = "ask"

\* C17: a back signal at a prompt while choices is empty raises nothing and
\* leaves choices empty; the same key is prompted again on the next pass,
\* also when the back signal is repeated there.
C17_BackAtFirstPrompt ==
  /\ [][(BackSignal /\ choices = <<>>) => (choices' = <<>> /\ pc' = "ask" /\ idx' = 1)]_vars
  /\ [](expect.kind = "first" =>
          /\ choices = <<>>
          /\ pc \in {"ask", "pick", "multi"}
          /\ Prompting => prompt.key = expect.key)

C17_Witness ==
  /\ expect.kind = "first"
  /\ backs = 2
  /\ Prompting
  /\ prompt.key = expect.key
  /\ choices = <<>>

Pos(k) == CHOOSE p \in 1..NKeys : KeyAt(p) = k

\* C18: the keys of choices, in recording order, are in registration order:
\* an answered key never precedes a key registered before it.
C18_RecordedInRegistrationOrder ==
  \A i, j \in 1..Len(choices) :
    i < j => Pos(choices[i].key) < Pos(choices[j].key)

C18_Witness ==
  /\ client = 2
  /\ backs = 2
  /\ Len(choices) = 2
  /\ choices[1].key = "mode"
  /\ choices[2].key = "tags"
  /\ "level" \in DOMAIN picked

\* C19: every key of choices resolves to a variant under the current
\* choices, and its answer was chosen from that variant's options: one of
\* them for a single-select key, a list of them or [ALL] for a multi-select
\* key.
C19_NoStaleAnswers ==
  \A i \in 1..Len(choices) :
    LET k == choices[i].key
        v == choices[i].val
        w == which_question(k, choices)
    IN  /\ w > 0
        /\ LET q == Variants(k)[w]
               IsOption(o) == \E n \in 1..Len(q.options) : q.options[n] = o
           IN  IF q.multiple
                 THEN /\ v.t = "list"
                      /\ v.l = <<ALL>> \/ \A n \in 1..Len(v.l) : IsOption(v.l[n])
                 ELSE /\ v.t = "str"
                      /\ IsOption(v.s)

C19_Witness ==
  /\ client = 1
  /\ pc = "returned"
  /\ backs > 0
  /\ Get(choices, "day") = Str("friday")
  /\ picked["day"] = Str("friday")
  /\ Get(choices, "activities") = List(<<"go to work", "eat granola">>)

\* a run without back signals in which the user gives the answers `answers`
RECURSIVE Replay(_, _, _)
Replay(p, ch, answers) ==
  IF p > NKeys THEN ch
  ELSE LET k == KeyAt(p)
       IN  IF which_question(k, ch) > 0
             THEN Replay(p + 1,
                         Append(ch, [key |-> k,
                                     val |-> IF k \in DOMAIN answers THEN answers[k] ELSE None]),
                         answers)
             ELSE Replay(p + 1, ch, answers)

\* C20: the mapping run() returns contains a registered key iff
\* which_question resolves a variant for it under the returned answers; it
\* is the mapping a run without back signals giving the same answers returns.
C20_ResultComplete ==
  pc = "returned" =>
    /\ result = dict(choices)
    /\ \A p \in 1..NKeys :
         KeyAt(p) \in DOMAIN result <=> which_question(KeyAt(p), choices) > 0
    /\ choices = Replay(1, <<>>, result)

C20_Witness ==
  /\ client = 2
  /\ pc = "returned"
  /\ backs > 0
  /\ DOMAIN result = {"mode", "tags"}
  /\ result["mode"] = Str("basic")
  /\ "level" \in DOMAIN picked

====
